---- MODULE Spec2Model ----
(***************************************************************************)
(* Model of crates/examples/src/bin/simple_line.rs: main and dump_file.    *)
(* dump_file iterates the compilation units of a binary, iterates the rows *)
(* of each unit's line program, folds every non-end_sequence row into      *)
(* bytes_on_line (path -> line -> LineInfo) and finally prints every       *)
(* (path, line) that more than one row was attributed to.                  *)
(*                                                                         *)
(* Results of calls into the DWARF reader (units().next(), unit(),         *)
(* next_row(), row.file(), file.directory(), attr_string()) are inputs,    *)
(* drawn from small sets.  Option<T> is a sequence of length 0 or 1.       *)
(* A string is a sequence of tokens, each a separator "/" or a path        *)
(* component.                                                              *)
(***************************************************************************)
EXTENDS Integers, Sequences, FiniteSets, TLC

VARIABLES pc, result, bytes_on_line, unitCount, rowCount, comp_dir, row,
          path, reported, output, local_aggregates

vars == <<pc, result, bytes_on_line, unitCount, rowCount, comp_dir, row,
          path, reported, output, local_aggregates>>

\* ---------------------------------------------------------------- bounds
\* Compilation units in the binary, rows decoded in a run, and rows decoded
\* in a run of the per-unit workers.
MaxUnits == 2
MaxRows == 2
MaxMergeRows == 3

\* ---------------------------------------------------------------- inputs
None == <<>>
Some(x) == <<x>>

Addresses == {4096, 4100}
Lines == {None, Some(10)}
ColumnTypes == {None, Some(3), Some(5)}
CompDirs == {None, Some(<<"/", "src">>)}

\* An attribute value naming a string: ok = FALSE is a bad string offset.
BadRef == [ok |-> FALSE, str |-> <<>>]
GoodRef(s) == [ok |-> TRUE, str |-> s]
DirRefs == {GoodRef(<<"inc">>), BadRef}
NameRefs == {GoodRef(<<"a.c">>), BadRef}

\* directory is what file.directory(header) returns for the entry.
FileEntries ==
  [directory_index : {0, 1}, directory : {None} \cup {Some(d) : d \in DirRefs},
   path_name : NameRefs]

PlainFile == [directory_index |-> 0, directory |-> None, path_name |-> GoodRef(<<"a.c">>)]

\* Rows that vary the registers, with or without a file.
RegisterRows ==
  [address : Addresses, file : {None, Some(PlainFile)},
   line : Lines, column : ColumnTypes, end_sequence : BOOLEAN]

\* Rows that vary the file entry.
FileRows ==
  [address : {4096}, file : {None} \cup {Some(f) : f \in FileEntries},
   line : {Some(10)}, column : {Some(3)}, end_sequence : {FALSE}]

Rows == RegisterRows \cup FileRows

\* Rows of the units handed to the per-unit workers.
WorkerRows ==
  [address : Addresses, file : {Some(PlainFile)},
   line : {Some(10)}, column : {Some(3), Some(5)}, end_sequence : {FALSE}]
    \cup [address : {4096}, file : {Some(PlainFile)}, line : {None},
          column : {Some(3)}, end_sequence : {FALSE}]
    \cup [address : {4096}, file : {None}, line : {Some(10)}, column : {None},
          end_sequence : BOOLEAN]

exe == <<"a.out">>

\* ----------------------------------------------------------- path::PathBuf
EmptyPath == [abs |-> FALSE, comps |-> <<>>]

RECURSIVE Components(_)
Components(s) ==
  IF s = <<>> THEN <<>>
  ELSE IF Head(s) = "/" THEN Components(Tail(s))
  ELSE <<Head(s)>> \o Components(Tail(s))

IsAbsolute(s) == s # <<>> /\ Head(s) = "/"

PathBufFrom(s) == [abs |-> IsAbsolute(s), comps |-> Components(s)]

Push(p, s) ==
  IF IsAbsolute(s) THEN PathBufFrom(s)
  ELSE [abs |-> p.abs, comps |-> p.comps \o Components(s)]

\* to_string_lossy: an invalid byte sequence becomes U+FFFD.
ToStringLossy(s) == [i \in 1..Len(s) |-> IF s[i] = "\\xff" THEN "U+FFFD" ELSE s[i]]

\* ------------------------------------------------------------- HashMap
EmptyMap == <<>>
OrDefault(m, k, d) == IF k \in DOMAIN m THEN m[k] ELSE d
Insert(m, k, v) == [x \in (DOMAIN m) \cup {k} |-> IF x = k THEN v ELSE m[x]]

DefaultLineInfo == [addresses |-> <<>>, columns |-> EmptyMap]

\* ------------------------------------------------- dump_file: row handling
\* A resolver that turns a bad offset into the empty string.
attr_stringOrEmpty(v) == [ok |-> TRUE, str |-> v.str]

\* dwarf.attr_string(&unit, v): Ok(string) or Err.
attr_string(v) == IF v.ok THEN [ok |-> TRUE, str |-> v.str] ELSE [ok |-> FALSE, str |-> <<>>]

\* A resolver that looks up the directory whatever the directory index is.
PushDirectoryAnyIndex(dir, file) ==
  IF file.directory # None
  THEN LET d == attr_string(file.directory[1])
       IN IF d.ok THEN [ok |-> TRUE, path |-> Push(dir, ToStringLossy(d.str))]
          ELSE [ok |-> FALSE, path |-> dir]
  ELSE [ok |-> TRUE, path |-> dir]

\* The directory part of the path: the path after lines 99-108, or the
\* error of the ? on line 105.
PushDirectory(dir, file) ==
  IF file.directory_index # 0 /\ file.directory # None
  THEN LET d == attr_string(file.directory[1])
       IN IF d.ok THEN [ok |-> TRUE, path |-> Push(dir, ToStringLossy(d.str))]
          ELSE [ok |-> FALSE, path |-> dir]
  ELSE [ok |-> TRUE, path |-> dir]

\* A resolver that starts from the compilation directory before it looks
\* for the file.
ResolvePathFromCompDir(dir, r) ==
  IF r.file = None THEN [ok |-> TRUE, path |-> dir]
  ELSE LET file == r.file[1]
           withDir == PushDirectory(dir, file)
           name == attr_string(file.path_name)
       IN IF ~withDir.ok THEN withDir
          ELSE IF ~name.ok THEN [ok |-> FALSE, path |-> withDir.path]
          ELSE [ok |-> TRUE, path |-> Push(withDir.path, ToStringLossy(name.str))]

\* "Determine the path": the value of path on line 117, or the error that
\* one of the two ? operators returned from dump_file.
ResolvePath(dir, r) ==
  IF r.file = None THEN [ok |-> TRUE, path |-> EmptyPath]
  ELSE LET file == r.file[1]
           withDir == PushDirectory(dir, file)
           name == attr_string(file.path_name)
       IN IF ~withDir.ok THEN withDir
          ELSE IF ~name.ok THEN [ok |-> FALSE, path |-> withDir.path]
          ELSE [ok |-> TRUE, path |-> Push(withDir.path, ToStringLossy(name.str))]

LineOf(r) == IF r.line = None THEN 0 ELSE r.line[1]
ColumnOf(r) == IF r.column = None THEN 0 ELSE r.column[1]

\* An aggregation that sets the occurrence count instead of adding to it.
AggregateRowSetOne(agg, p, line, column, address) ==
  LET lines == OrDefault(agg, p, EmptyMap)
      info == OrDefault(lines, line, DefaultLineInfo)
      info2 == [addresses |-> Append(info.addresses, address),
                columns |-> Insert(info.columns, column, 1)]
  IN Insert(agg, p, Insert(lines, line, info2))

\* An aggregation that puts the new address in front.
AggregateRowPrepend(agg, p, line, column, address) ==
  LET lines == OrDefault(agg, p, EmptyMap)
      info == OrDefault(lines, line, DefaultLineInfo)
      occurrences == OrDefault(info.columns, column, 0)
      info2 == [addresses |-> <<address>> \o info.addresses,
                columns |-> Insert(info.columns, column, occurrences + 1)]
  IN Insert(agg, p, Insert(lines, line, info2))

\* An aggregation that keeps an address only once.
AggregateRowDedup(agg, p, line, column, address) ==
  LET lines == OrDefault(agg, p, EmptyMap)
      info == OrDefault(lines, line, DefaultLineInfo)
      occurrences == OrDefault(info.columns, column, 0)
      seen == \E i \in 1..Len(info.addresses) : info.addresses[i] = address
      info2 == [addresses |-> IF seen THEN info.addresses
                              ELSE Append(info.addresses, address),
                columns |-> Insert(info.columns, column, occurrences + 1)]
  IN Insert(agg, p, Insert(lines, line, info2))

\* Lines 129-133: entry(path).or_default(), entry(line).or_default(),
\* entry(column).or_default() += 1, addresses.push(address).
AggregateRow(agg, p, line, column, address) ==
  LET lines == OrDefault(agg, p, EmptyMap)
      info == OrDefault(lines, line, DefaultLineInfo)
      occurrences == OrDefault(info.columns, column, 0)
      info2 == [addresses |-> Append(info.addresses, address),
                columns |-> Insert(info.columns, column, occurrences + 1)]
  IN Insert(agg, p, Insert(lines, line, info2))

\* ------------------------------------------------------------- reporter
HexDigit == <<"0", "1", "2", "3", "4", "5", "6", "7", "8", "9",
              "a", "b", "c", "d", "e", "f">>

RECURSIVE LowerHex(_)
LowerHex(n) ==
  IF n < 16 THEN <<HexDigit[n + 1]>>
  ELSE LowerHex(n \div 16) \o <<HexDigit[(n % 16) + 1]>>

\* format!("{:#x}", a)
FormatHex(a) == <<"0", "x">> \o LowerHex(a)

RECURSIVE Join(_, _)
Join(strs, sep) ==
  IF strs = <<>> THEN <<>>
  ELSE IF Len(strs) = 1 THEN strs[1]
  ELSE strs[1] \o sep \o Join(Tail(strs), sep)

RECURSIVE SumValues(_)
SumValues(m) ==
  IF DOMAIN m = {} THEN 0
  ELSE LET k == CHOOSE x \in DOMAIN m : TRUE
       IN m[k] + SumValues([x \in (DOMAIN m) \ {k} |-> m[x]])

\* Lines 150-153: the fold over columns.values().
Instructions(info) == SumValues(info.columns)

\* A reporter that prints every line that has an instruction.
ShouldPrintNonEmpty(instructions) == instructions >= 1

\* Line 154.
ShouldPrint(instructions) == instructions > 1

\* Lines 155-167: the printed line.
ReportLineOf(p, line, info) ==
  [path |-> p, line |-> line, instructions |-> Instructions(info), exe |-> exe,
   addresses |-> Join([i \in 1..Len(info.addresses) |-> FormatHex(info.addresses[i])], <<" ">>)]

Entries(agg) == UNION {{<<p, l>> : l \in DOMAIN agg[p]} : p \in DOMAIN agg}

\* The nested for loops of lines 141-142 visit the lines of one path before
\* moving to another path; HashMap order is otherwise arbitrary.
PartlyVisited(agg, seen) ==
  {p \in DOMAIN agg : /\ \E l \in DOMAIN agg[p] : <<p, l>> \in seen
                      /\ \E l \in DOMAIN agg[p] : <<p, l>> \notin seen}

NextEntries(agg, seen) ==
  {e \in Entries(agg) \ seen :
     PartlyVisited(agg, seen) = {} \/ e[1] \in PartlyVisited(agg, seen)}

\* ------------------------------------------------------------- actions
Running == {"units", "rows", "report"}
UnitErrors == {"ErrUnitsNext", "ErrUnit", "ErrNextRow"}
StringErrors == {"ErrAttrString"}

Init ==
  /\ pc = "units"
  /\ result = "none"
  /\ bytes_on_line = EmptyMap
  /\ unitCount = 0
  /\ rowCount = 0
  /\ comp_dir = EmptyPath
  /\ row = None
  /\ path = EmptyPath
  /\ reported = {}
  /\ output = <<>>
  /\ local_aggregates = <<>>

\* An error that is recorded while the loop goes on.
ReturnErrAndContinue(e) ==
  /\ result' = e
  /\ pc' = pc

\* return Err(e) out of dump_file through a ? operator.
ReturnErr(e) ==
  /\ result' = e
  /\ pc' = "returned"

\* unit.comp_dir as a PathBuf, lines 83-87.
CompDirPath(dir) ==
  IF dir # None THEN PathBufFrom(ToStringLossy(dir[1])) ELSE EmptyPath

\* One iteration of `while let Some(header) = iter.next()?`, up to the
\* creation of the row iterator (lines 74-90).
NextUnit ==
  /\ pc = "units"
  /\ \/ /\ ReturnErr("ErrUnitsNext")
        /\ UNCHANGED <<bytes_on_line, unitCount, rowCount, comp_dir, row, path,
                       reported, output>>
     \/ /\ pc' = "report"
        /\ UNCHANGED <<result, bytes_on_line, unitCount, rowCount, comp_dir, row,
                       path, reported, output>>
     \/ /\ unitCount < MaxUnits
        /\ unitCount' = unitCount + 1
        /\ \/ /\ ReturnErr("ErrUnit")
              /\ UNCHANGED comp_dir
           \/ /\ pc' = "units"
              /\ UNCHANGED <<result, comp_dir>>
           \/ \E dir \in CompDirs :
                /\ comp_dir' = CompDirPath(dir)
                /\ pc' = "rows"
                /\ UNCHANGED result
        /\ UNCHANGED <<bytes_on_line, rowCount, row, path, reported, output>>

\* The body of the row loop for a row that is not an end_sequence
\* (lines 96-133).
ProcessRow(r) ==
  LET resolved == ResolvePath(comp_dir, r)
  IN /\ path' = resolved.path
     /\ IF resolved.ok
        THEN /\ bytes_on_line' =
                  AggregateRow(bytes_on_line, resolved.path, LineOf(r), ColumnOf(r), r.address)
             /\ UNCHANGED <<pc, result>>
        ELSE /\ ReturnErr("ErrAttrString")
             /\ UNCHANGED bytes_on_line

\* A loop body that aggregates end_sequence rows too.
HandleRowAggregateAll(r) == ProcessRow(r)

\* The body of the row loop (lines 92-136).

HandleRow(r) ==
  IF r.end_sequence
  THEN UNCHANGED <<pc, result, bytes_on_line, path>>
  ELSE ProcessRow(r)

\* One iteration of `while let Some((header, row)) = rows.next_row()?`
\* (lines 91-137) over a line program whose rows are in S.  When the loop
\* ends, row, path and comp_dir go out of scope.
NextRowFrom(S, cap) ==
  /\ pc = "rows"
  /\ \/ /\ ReturnErr("ErrNextRow")
        /\ UNCHANGED <<bytes_on_line, rowCount, row, path, comp_dir>>
     \/ /\ pc' = "units"
        /\ row' = None
        /\ path' = EmptyPath
        /\ comp_dir' = EmptyPath
        /\ UNCHANGED <<result, bytes_on_line, rowCount>>
     \/ /\ rowCount < cap
        /\ \E r \in S :
             /\ row' = Some(r)
             /\ rowCount' = rowCount + 1
             /\ UNCHANGED comp_dir
             /\ HandleRow(r)
  /\ UNCHANGED <<unitCount, reported, output>>

NextRow == NextRowFrom(Rows, MaxRows)

\* A reporter that drains the entry it visits.
ReportLineDrain ==
  /\ pc = "report"
  /\ \E e \in Entries(bytes_on_line) :
       LET info == bytes_on_line[e[1]][e[2]]
           rest == [l \in (DOMAIN bytes_on_line[e[1]]) \ {e[2]} |-> bytes_on_line[e[1]][l]]
       IN /\ reported' = reported \cup {e}
          /\ bytes_on_line' = [bytes_on_line EXCEPT ![e[1]] = rest]
          /\ output' = IF ShouldPrint(Instructions(info))
                       THEN Append(output, ReportLineOf(e[1], e[2], info))
                       ELSE output
  /\ UNCHANGED <<pc, result, unitCount, rowCount, comp_dir, row, path>>

\* One iteration of the inner loop of the reporter (lines 141-170).
ReportLine ==
  /\ pc = "report"
  /\ \E e \in NextEntries(bytes_on_line, reported) :
       LET info == bytes_on_line[e[1]][e[2]]
       IN /\ reported' = reported \cup {e}
          /\ output' = IF ShouldPrint(Instructions(info))
                       THEN Append(output, ReportLineOf(e[1], e[2], info))
                       ELSE output
  /\ UNCHANGED <<pc, result, bytes_on_line, unitCount, rowCount, comp_dir, row, path>>

\* Ok(()) on line 172, once both loops are exhausted.
ReturnOk ==
  /\ pc = "report"
  /\ NextEntries(bytes_on_line, reported) = {}
  /\ result' = "Ok"
  /\ pc' = "returned"
  /\ UNCHANGED <<bytes_on_line, unitCount, rowCount, comp_dir, row, path,
                 reported, output>>

\* dump_file(...).unwrap() in main, line 21.
MainUnwrap ==
  /\ pc = "returned"
  /\ pc' = IF result = "Ok" THEN "exit" ELSE "panicked"
  /\ UNCHANGED <<result, bytes_on_line, unitCount, rowCount, comp_dir, row, path,
                 reported, output>>

Next ==
  \/ NextUnit /\ UNCHANGED local_aggregates
  \/ NextRow /\ UNCHANGED local_aggregates
  \/ ReportLine /\ UNCHANGED local_aggregates
  \/ ReturnOk /\ UNCHANGED local_aggregates
  \/ MainUnwrap /\ UNCHANGED local_aggregates

Spec == Init /\ [][Next]_vars

\* ------------------------------------------- per-unit workers and the merge
\* The design of one worker per compilation unit, each folding its unit's
\* rows into a local aggregate, and a final merge of the local aggregates.
\* local_aggregates[i] is the local aggregate of the i-th unit, kept next to
\* the single pass of dump_file over the same units.
MergeLineInfo(x, y) ==
  [addresses |-> x.addresses \o y.addresses,
   columns |-> [c \in (DOMAIN x.columns) \cup (DOMAIN y.columns) |->
                  OrDefault(x.columns, c, 0) + OrDefault(y.columns, c, 0)]]

MergeLines(x, y) ==
  [l \in (DOMAIN x) \cup (DOMAIN y) |->
     IF l \in DOMAIN x /\ l \in DOMAIN y THEN MergeLineInfo(x[l], y[l])
     ELSE IF l \in DOMAIN x THEN x[l] ELSE y[l]]

Merge(x, y) ==
  [p \in (DOMAIN x) \cup (DOMAIN y) |->
     IF p \in DOMAIN x /\ p \in DOMAIN y THEN MergeLines(x[p], y[p])
     ELSE IF p \in DOMAIN x THEN x[p] ELSE y[p]]

RECURSIVE MergeAll(_)
MergeAll(aggs) ==
  IF aggs = <<>> THEN EmptyMap
  ELSE Merge(MergeAll(SubSeq(aggs, 1, Len(aggs) - 1)), aggs[Len(aggs)])

\* A worker is started for every unit that dwarf.unit() built.
WorkerStart ==
  local_aggregates' =
    IF unitCount' = unitCount + 1 /\ result' = "none"
    THEN Append(local_aggregates, EmptyMap)
    ELSE local_aggregates

\* The worker of the current unit aggregates the row dump_file aggregated.
WorkerRow ==
  local_aggregates' =
    IF rowCount' = rowCount + 1 /\ result' = "none" /\ ~row'[1].end_sequence
    THEN [local_aggregates EXCEPT ![Len(local_aggregates)] =
            AggregateRow(@, path', LineOf(row'[1]), ColumnOf(row'[1]), row'[1].address)]
    ELSE local_aggregates

\* The decode phase of dump_file with the workers next to it; the merge
\* is looked at when the unit loop has ended.
NextMerge ==
  \/ NextUnit /\ WorkerStart
  \/ NextRowFrom(WorkerRows, MaxMergeRows) /\ WorkerRow

SpecMerge == Init /\ [][NextMerge]_vars

\* ------------------------------------------------------------ properties
RECURSIVE SumOver(_, _)
SumOver(f, S) ==
  IF S = {} THEN 0
  ELSE LET k == CHOOSE x \in S : TRUE IN f[k] + SumOver(f, S \ {k})

TotalOccurrences(info) == SumOver(info.columns, DOMAIN info.columns)

InfoAt(agg, p, l) ==
  IF p \in DOMAIN agg /\ l \in DOMAIN agg[p] THEN agg[p][l] ELSE DefaultLineInfo

\* This step took a row from the line program.
RowTaken == rowCount' = rowCount + 1

\* This step ran lines 129-133 for the row it took.
RowAggregated == RowTaken /\ ~row'[1].end_sequence /\ result' = "none"

\* C1: the aggregation step for a non-end_sequence row appends the row's
\* address to the addresses of the LineInfo under (resolved path, line)
\* and adds exactly 1 to columns[column] of that LineInfo, an unseen column
\* counting from 0 and a missing LineInfo or path entry being created empty
\* first; nothing else in the aggregate changes.
C1_AggregationStep ==
  [][RowAggregated =>
       LET r == row'[1]
           l == LineOf(r)
           c == ColumnOf(r)
           old == InfoAt(bytes_on_line, path', l)
           new == InfoAt(bytes_on_line', path', l)
       IN /\ path' \in DOMAIN bytes_on_line'
          /\ l \in DOMAIN bytes_on_line'[path']
          /\ new.addresses = Append(old.addresses, r.address)
          /\ DOMAIN new.columns = (DOMAIN old.columns) \cup {c}
          /\ new.columns[c] = (IF c \in DOMAIN old.columns THEN old.columns[c] ELSE 0) + 1
          /\ \A d \in DOMAIN old.columns : d # c => new.columns[d] = old.columns[d]
          /\ Entries(bytes_on_line') = Entries(bytes_on_line) \cup {<<path', l>>}
          /\ \A e \in Entries(bytes_on_line) :
               e # <<path', l>> => bytes_on_line'[e[1]][e[2]] = bytes_on_line[e[1]][e[2]]
    ]_vars

\* Rows (0x1000, line 10, column 3) and (0x1004, line 10, column 5) of one
\* file were aggregated.
C1_Witness ==
  \E p \in DOMAIN bytes_on_line :
    /\ p # EmptyPath
    /\ 10 \in DOMAIN bytes_on_line[p]
    /\ bytes_on_line[p][10] = [addresses |-> <<4096, 4100>>, columns |-> (3 :> 1 @@ 5 :> 1)]

HexValue(d) == CHOOSE i \in 0..15 : HexDigit[i + 1] = d

RECURSIVE ParseHexDigits(_)
ParseHexDigits(ds) ==
  IF ds = <<>> THEN 0
  ELSE ParseHexDigits(SubSeq(ds, 1, Len(ds) - 1)) * 16 + HexValue(ds[Len(ds)])

RECURSIVE SplitSpaces(_)
SplitSpaces(str) ==
  IF str = <<>> THEN <<>>
  ELSE LET stops == {i \in 1..Len(str) : str[i] = " "}
           stop == IF stops = {} THEN Len(str) + 1
                   ELSE CHOOSE i \in stops : \A j \in stops : i <= j
       IN <<SubSeq(str, 1, stop - 1)>>
            \o (IF stop > Len(str) THEN <<>> ELSE SplitSpaces(SubSeq(str, stop + 1, Len(str))))

\* The addresses a printed line names, read back from its text.
PrintedAddresses(o) ==
  LET words == SplitSpaces(o.addresses)
  IN [i \in 1..Len(words) |-> ParseHexDigits(SubSeq(words[i], 3, Len(words[i])))]

WellFormedHex(o) ==
  \A i \in 1..Len(SplitSpaces(o.addresses)) :
    LET w == SplitSpaces(o.addresses)[i] IN Len(w) >= 3 /\ w[1] = "0" /\ w[2] = "x"

PrintedKeys == {<<output[i].path, output[i].line>> : i \in 1..Len(output)}

\* C2: a (path, line) the reporter has visited is printed if and only if
\* the sum of its column counts is greater than 1; a printed line carries
\* that sum as its instruction count and the full addresses sequence in
\* aggregation order; when dump_file returns Ok every (path, line) was
\* visited.
C2_ReporterRule ==
  /\ reported \subseteq Entries(bytes_on_line)
  /\ \A e \in reported :
       (TotalOccurrences(bytes_on_line[e[1]][e[2]]) > 1) <=> (e \in PrintedKeys)
  /\ PrintedKeys \subseteq reported
  /\ \A i \in 1..Len(output) :
       LET o == output[i]
           info == InfoAt(bytes_on_line, o.path, o.line)
       IN /\ o.instructions = TotalOccurrences(info)
          /\ WellFormedHex(o)
          /\ PrintedAddresses(o) = info.addresses
          /\ \A j \in 1..Len(output) : j # i => <<output[j].path, output[j].line>> # <<o.path, o.line>>
  /\ result = "Ok" => reported = Entries(bytes_on_line)

\* dump_file returned Ok having printed one line and suppressed nothing
\* else than lines with a single instruction.
C2_Witness ==
  /\ result = "Ok"
  /\ Len(output) = 1
  /\ output[1].instructions = 2
  /\ PrintedAddresses(output[1]) = <<4100, 4096>>

Ended == {"returned", "panicked"}

ResolutionFails(r) ==
  /\ r.file # None
  /\ LET f == r.file[1]
     IN \/ ~f.path_name.ok
        \/ f.directory_index # 0 /\ f.directory # None /\ ~f.directory[1].ok

\* C4 as stated: when resolving the directory name or the file name of a
\* row fails, decoding continues and the row is still aggregated.
C4_Original ==
  [][(RowTaken /\ ~row'[1].end_sequence /\ ResolutionFails(row'[1])) =>
       /\ pc' = "rows"
       /\ result' = "none"
       /\ bytes_on_line' # bytes_on_line
    ]_vars

\* C4: when resolving the directory name or the file name of a row fails,
\* dump_file returns the error at once and the row is not aggregated.
C4_StringFailureAborts ==
  [][(RowTaken /\ ~row'[1].end_sequence /\ ResolutionFails(row'[1])) =>
       /\ pc' = "returned"
       /\ result' = "ErrAttrString"
       /\ bytes_on_line' = bytes_on_line
       /\ output' = <<>>
    ]_vars

\* main panicked on a row whose file name could not be resolved, after an
\* earlier row was aggregated.
C4_Witness ==
  /\ pc = "panicked"
  /\ result = "ErrAttrString"
  /\ row # None
  /\ ResolutionFails(row[1])
  /\ bytes_on_line # EmptyMap

\* C5: for a row whose file entry has directory index 0 the resolved path
\* is the compilation directory joined with the file name, whatever the
\* directory table holds for the entry (it is not even resolved); for a
\* non-zero directory index it is the compilation directory joined with
\* the directory of the entry joined with the file name.
C5_DirectoryIndexRule ==
  (row # None /\ ~row[1].end_sequence /\ row[1].file # None) =>
    LET f == row[1].file[1]
        name == ToStringLossy(f.path_name.str)
    IN /\ (f.directory_index = 0 /\ f.path_name.ok) =>
            /\ result # "ErrAttrString"
            /\ path = Push(comp_dir, name)
       /\ (f.directory_index # 0 /\ f.directory # None /\ f.directory[1].ok /\ f.path_name.ok) =>
            /\ result # "ErrAttrString"
            /\ path = Push(Push(comp_dir, ToStringLossy(f.directory[1].str)), name)

\* A row with directory index 0 whose entry has a directory in the table
\* was resolved below a compilation directory.
C5_Witness ==
  /\ row # None /\ ~row[1].end_sequence /\ row[1].file # None
  /\ row[1].file[1].directory_index = 0
  /\ row[1].file[1].directory = Some(GoodRef(<<"inc">>))
  /\ comp_dir = [abs |-> TRUE, comps |-> <<"src">>]
  /\ path = [abs |-> TRUE, comps |-> <<"src", "a.c">>]
  /\ path \in DOMAIN bytes_on_line

\* C7: an end_sequence row leaves the whole aggregate unchanged, whatever
\* the aggregate and the registers of the row are.
C7_EndSequenceNoOp ==
  [][(RowTaken /\ row'[1].end_sequence) =>
       /\ bytes_on_line' = bytes_on_line
       /\ pc' = "rows"
       /\ result' = "none"
    ]_vars

\* An end_sequence row was taken after a row was aggregated.
C7_Witness ==
  /\ row # None
  /\ row[1].end_sequence
  /\ bytes_on_line # EmptyMap

\* C8: a non-end_sequence row without a file entry gets the empty path,
\* not the compilation directory, and is aggregated under the empty path
\* with its line, column and address.
C8_NoFileKept ==
  (row # None /\ ~row[1].end_sequence /\ row[1].file = None) =>
    /\ path = EmptyPath
    /\ result # "ErrAttrString"
    /\ EmptyPath \in DOMAIN bytes_on_line
    /\ LineOf(row[1]) \in DOMAIN bytes_on_line[EmptyPath]
    /\ LET info == bytes_on_line[EmptyPath][LineOf(row[1])]
       IN /\ info.addresses # <<>>
          /\ info.addresses[Len(info.addresses)] = row[1].address
          /\ ColumnOf(row[1]) \in DOMAIN info.columns

\* A row without a file was aggregated in a unit that has a compilation
\* directory.
C8_Witness ==
  /\ row # None /\ ~row[1].end_sequence /\ row[1].file = None
  /\ comp_dir # EmptyPath
  /\ EmptyPath \in DOMAIN bytes_on_line

\* C9: every aggregation step precedes every report line: a step that
\* changes the aggregate or decodes a unit or a row happens while nothing
\* was reported, a report step happens only after the unit loop ended, and
\* from then on the aggregate is never modified and no unit or row is
\* decoded.
C9_PhaseOrdering ==
  [][/\ (bytes_on_line' # bytes_on_line \/ unitCount' # unitCount \/ rowCount' # rowCount) =>
          /\ pc \in {"units", "rows"}
          /\ output = <<>> /\ reported = {}
          /\ output' = <<>> /\ reported' = {}
     /\ (output' # output \/ reported' # reported) =>
          /\ pc = "report"
          /\ bytes_on_line' = bytes_on_line
     /\ pc = "report" => pc' \in {"report", "returned"}
    ]_vars

\* A line was printed after two units were processed.
C9_Witness ==
  /\ pc = "report"
  /\ output # <<>>
  /\ unitCount = 2

\* C10: for every (path, line) of the aggregate the sum of the column
\* counts equals the number of addresses and is at least 1, no column
\* count is 0, and a printed instruction count is the number of addresses
\* printed with it.
C10_CountsMatchAddresses ==
  /\ \A e \in Entries(bytes_on_line) :
       LET info == bytes_on_line[e[1]][e[2]]
       IN /\ TotalOccurrences(info) = Len(info.addresses)
          /\ Len(info.addresses) >= 1
          /\ \A c \in DOMAIN info.columns : info.columns[c] >= 1
  /\ \A i \in 1..Len(output) :
       output[i].instructions = Len(SplitSpaces(output[i].addresses))

\* A LineInfo with the same address twice, counted in two columns.
C10_Witness ==
  \E e \in Entries(bytes_on_line) :
    LET info == bytes_on_line[e[1]][e[2]]
    IN /\ info.addresses = <<4096, 4096>>
       /\ Cardinality(DOMAIN info.columns) = 2

Occurs(seq, a) == Cardinality({i \in 1..Len(seq) : seq[i] = a})

\* The same keys and columns, and the same addresses up to their order.
SameUpToAddressOrder(x, y) ==
  /\ Entries(x) = Entries(y)
  /\ \A e \in Entries(x) :
       LET i == x[e[1]][e[2]]
           j == y[e[1]][e[2]]
       IN /\ i.columns = j.columns
          /\ Len(i.addresses) = Len(j.addresses)
          /\ \A a \in Addresses : Occurs(i.addresses, a) = Occurs(j.addresses, a)

Workers == 1..Len(local_aggregates)

OnePassIsMerge == bytes_on_line = MergeAll(local_aggregates)

\* The workers have all finished: the merge step runs.
AllUnitsDone == pc = "report"

MergeAssociative ==
  \A i, j, k \in Workers :
    Merge(Merge(local_aggregates[i], local_aggregates[j]), local_aggregates[k])
      = Merge(local_aggregates[i], Merge(local_aggregates[j], local_aggregates[k]))

\* C6 as stated: aggregating the units alone and merging the aggregates
\* gives the aggregate of one pass over the units, and the merge of the
\* finished units' aggregates is associative and commutative, the
\* addresses sequence included.
C6_Original ==
  /\ OnePassIsMerge
  /\ AllUnitsDone => MergeAssociative
  /\ AllUnitsDone => \A i, j \in Workers :
       Merge(local_aggregates[i], local_aggregates[j])
         = Merge(local_aggregates[j], local_aggregates[i])

\* C6: aggregating the units alone and merging the aggregates in unit
\* order gives the aggregate of one pass over the units; the merge of the
\* finished units' aggregates is associative, and commutative in the keys,
\* the column counts and the addresses each key holds, but not in the
\* order of the addresses.
C6_MergeEquivalence ==
  /\ OnePassIsMerge
  /\ AllUnitsDone => MergeAssociative
  /\ AllUnitsDone => \A i, j \in Workers :
       SameUpToAddressOrder(Merge(local_aggregates[i], local_aggregates[j]),
                            Merge(local_aggregates[j], local_aggregates[i]))

\* Two units gave different addresses to the same (path, line).
C6_Witness ==
  /\ pc = "report"
  /\ Len(local_aggregates) = 2
  /\ \E e \in Entries(local_aggregates[1]) \cap Entries(local_aggregates[2]) :
       local_aggregates[1][e[1]][e[2]].addresses # local_aggregates[2][e[1]][e[2]].addresses
====
